---- MODULE Spec2Model ----
(***************************************************************************)
(* A model of the loggo Logger (github.com/hvpaiva/loggo): construction    *)
(* with options, the wrappers that delegate to LogE, and LogE itself,      *)
(* step by step, called by several goroutines on one Logger and one sink.  *)
(*                                                                         *)
(* Text is a sequence of units (a unit is a string of one or more          *)
(* characters); the sink content is the sequence of units written, each    *)
(* tagged with the call that wrote it.                                     *)
(***************************************************************************)
EXTENDS Integers, Sequences, FiniteSets, TLC

\* ------------------------------------------------------------- bounds
\* Number of goroutines that log concurrently.
NumProcs == 2
\* Number of calls the sequential client makes one after the other.
MaxCalls == 2

\* Largest max size the truncation client configures.
MaxSizeBound == 3

Procs == 1..NumProcs

\* ------------------------------------------------------------- level.go
LevelDebug == 0
LevelInfo == 1
LevelWarn == 2
LevelError == 3
LevelFatal == 4

Levels == {LevelDebug, LevelInfo, LevelWarn, LevelError, LevelFatal}

\* Level.String: the display name, as a sequence of characters.
LevelString(l) ==
    CASE l = LevelDebug -> <<"D", "E", "B", "U", "G">>
      [] l = LevelInfo  -> <<"I", "N", "F", "O">>
      [] l = LevelWarn  -> <<"W", "A", "R", "N">>
      [] l = LevelError -> <<"E", "R", "R", "O", "R">>
      [] l = LevelFatal -> <<"F", "A", "T", "A", "L">>

\* ------------------------------------------------------------- text helpers
RECURSIVE Spaces(_)
Spaces(n) == IF n <= 0 THEN <<>> ELSE <<" ">> \o Spaces(n - 1)

\* printf "%5s": right-justify in a field of five characters.
PrintfPad5(s) == Spaces(5 - Len(s)) \o s

\* fmt.Sprintf(format, args...) for formats whose only verb is %s: each verb
\* takes the next argument, a verb without argument prints %!s(MISSING),
\* arguments left over are reported at the end.
RECURSIVE SprintfFrom(_, _, _)
SprintfFrom(format, args, i) ==
    IF i > Len(format)
    THEN IF args = <<>> THEN <<>> ELSE <<"%!(EXTRA)">>
    ELSE IF format[i] = "%s"
         THEN IF args = <<>>
              THEN <<"%!s(MISSING)">> \o SprintfFrom(format, args, i + 1)
              ELSE <<Head(args)>> \o SprintfFrom(format, Tail(args), i + 1)
         ELSE <<format[i]>> \o SprintfFrom(format, args, i + 1)

Sprintf(format, args) == SprintfFrom(format, args, 1)

\* ------------------------------------------------------------- data.go
\* truncateString: the prefix of maxSize units when the input is longer.
truncateStringWithEllipsis(input, maxSize) ==
    IF Len(input) > maxSize THEN SubSeq(input, 1, maxSize) \o <<"...">> ELSE input
truncateString(input, maxSize) ==
    IF Len(input) > maxSize THEN SubSeq(input, 1, maxSize) ELSE input

\* The caller providers of the tests: (file, line, ok).
okCallerProvider == [file |-> "file", line |-> 1, ok |-> TRUE]
errorCallerProvider == [file |-> "", line |-> 0, ok |-> FALSE]

\* A provider that reports ok=false together with a file and a line.
staleCallerProvider == [file |-> "x.go", line |-> 7, ok |-> FALSE]

\* getCaller: "unknown" when the provider reports ok=false, else file:line.
getCallerIgnoringOk(cp) == <<cp.file, ":", ToString(cp.line)>>
getCaller(cp) ==
    IF ~cp.ok THEN <<"unknown">> ELSE <<cp.file, ":", ToString(cp.line)>>

\* time.Time.Format: the layout's seconds component "05" is replaced by the
\* value, every other unit of the layout is copied.
FormatTime(t, layout) ==
    [i \in 1..Len(layout) |-> IF layout[i] = "05" THEN ToString(t) ELSE layout[i]]

\* The time providers: time.Now reads the clock, fakeNow is a fixed instant.
Now(provider, clk) == IF provider = "fakeNow" THEN 0 ELSE clk

\* Where getTemplateData panics: Level.String indexes an array of five names
\* with the level (index out of range above LevelFatal), and truncateString
\* slices input[:maxSize] when len(input) > maxSize (slice bounds out of
\* range for a negative maxSize).
Panics(lvl, msg, lg) ==
    \/ lvl > LevelFatal
    \/ (Len(msg) > lg.maxSize /\ lg.maxSize < 0)

\* getTemplateData: the render data of one call.
getTemplateDataUntruncated(lvl, msg, lg, clk) ==
    [Level   |-> LevelString(lvl),
     Time    |-> FormatTime(Now(lg.now, clk), lg.timeFormat),
     Message |-> msg,
     Caller  |-> getCaller(lg.callerProvider)]
getTemplateData(lvl, msg, lg, clk) ==
    [Level   |-> LevelString(lvl),
     Time    |-> FormatTime(Now(lg.now, clk), lg.timeFormat),
     Message |-> truncateString(msg, lg.maxSize),
     Caller  |-> getCaller(lg.callerProvider)]

\* ------------------------------------------------------------- text/template
\* A template source is a sequence of lexemes: the delimiters "{{" and "}}",
\* inside an action "." followed by a field name or "printf" "%5s" "."
\* name, and text outside the actions.
RECURSIVE CloseAt(_, _)
CloseAt(src, i) ==
    IF i > Len(src) THEN 0
    ELSE IF src[i] = "}}" THEN i ELSE CloseAt(src, i + 1)

\* One action body to a node, or a parse error.
ParseAction(body) ==
    IF Len(body) = 2 /\ body[1] = "."
    THEN [err |-> "", node |-> [k |-> "field", v |-> body[2], pad |-> FALSE]]
    ELSE IF Len(body) = 4 /\ body[1] = "printf" /\ body[2] = "%5s" /\ body[3] = "."
    THEN [err |-> "", node |-> [k |-> "field", v |-> body[4], pad |-> TRUE]]
    ELSE IF body = <<>>
    THEN [err |-> "missing value for command",
          node |-> [k |-> "text", v |-> "", pad |-> FALSE]]
    ELSE [err |-> "unexpected token in command",
          node |-> [k |-> "text", v |-> "", pad |-> FALSE]]

\* template.New("log").Parse(src): the nodes of the template, or an error.
RECURSIVE ParseFrom(_, _, _)
ParseFrom(src, i, nodes) ==
    IF i > Len(src) THEN [err |-> "", nodes |-> nodes]
    ELSE IF src[i] = "{{"
    THEN LET j == CloseAt(src, i + 1) IN
         IF j = 0 THEN [err |-> "unclosed action", nodes |-> <<>>]
         ELSE LET a == ParseAction(SubSeq(src, i + 1, j - 1)) IN
              IF a.err # "" THEN [err |-> a.err, nodes |-> <<>>]
              ELSE ParseFrom(src, j + 1, Append(nodes, a.node))
    ELSE ParseFrom(src, i + 1,
                   Append(nodes, [k |-> "text", v |-> src[i], pad |-> FALSE]))

\* Parse that falls back to an empty template when the source is malformed.
ParseWithFallback(src) ==
    LET r == ParseFrom(src, 1, <<>>) IN
    IF r.err # ""
    THEN [err |-> "", nodes |-> <<[k |-> "text", v |-> "\n", pad |-> FALSE]>>]
    ELSE r
Parse(src) == ParseFrom(src, 1, <<>>)

\* The fields the render data exposes.
DataFields == {"Level", "Time", "Message", "Caller"}

\* Evaluating one node against the data: the bytes to write, or an error.
EvalNode(node, data) ==
    IF node.k = "text" THEN [err |-> "", bytes |-> <<node.v>>]
    ELSE IF node.v \notin DataFields
    THEN [err |-> "can't evaluate field", bytes |-> <<>>]
    ELSE [err |-> "",
          bytes |-> IF node.pad THEN PrintfPad5(data[node.v]) ELSE data[node.v]]

\* ------------------------------------------------------------- hooks
\* A hook rewrites the pending message: hook A appends "a", hook B "b".
Hooks == {"A", "B"}
\* Hook N logs "n" through the Logger it receives, unless the message it is
\* given starts with "n" (its own), and leaves the message as it is.
CallsLogger(h, msg) == h = "N" /\ (msg = <<>> \/ msg[1] # "n")
HookBody(h, msg) ==
    IF h = "N" THEN msg ELSE Append(msg, IF h = "A" THEN "a" ELSE "b")

\* ------------------------------------------------------------- templates
DefaultTemplate ==
    <<"{{", ".", "Time", "}}", " [", "{{", "printf", "%5s", ".", "Level", "}}",
      "]: ", "{{", ".", "Message", "}}">>
DefaultTimeFormat == <<"2006-01-02 15:04:", "05">>
\* "{{.Level": an action that is never closed.
UnclosedTemplate == <<"{{", ".", "Level">>
\* "{{.SomeField}}": a field the render data does not have.
UnknownFieldTemplate == <<"{{", ".", "SomeField", "}}">>
\* "[{{.Level}}] {{.SomeField}}": text and a valid field before the unknown one.
PrefixUnknownFieldTemplate ==
    <<"[", "{{", ".", "Level", "}}", "] ", "{{", ".", "SomeField", "}}">>
\* "{{.Caller}} [{{.Level}}]: {{.Message}}"
CallerTemplate ==
    <<"{{", ".", "Caller", "}}", " [", "{{", ".", "Level", "}}", "]: ",
      "{{", ".", "Message", "}}">>
\* "{{.Time}} {{.Caller}} | [{{.Level}}]: {{.Message}}"
CompleteTemplate ==
    <<"{{", ".", "Time", "}}", " ", "{{", ".", "Caller", "}}", " | [",
      "{{", ".", "Level", "}}", "]: ", "{{", ".", "Message", "}}">>
\* "{{.Message}} {{.Caller}}"
MessageCallerTemplate ==
    <<"{{", ".", "Message", "}}", " ", "{{", ".", "Caller", "}}">>
\* "{{.Level}}: {{.Message}}"
ShortTemplate == <<"{{", ".", "Level", "}}", ": ", "{{", ".", "Message", "}}">>

\* ------------------------------------------------------------- options
\* An option is a function that configures a Logger; here the option's name
\* and its argument, applied by ApplyOption.
WithOutput(output) == [opt |-> "WithOutput", v |-> output]
WithTemplate(template) == [opt |-> "WithTemplate", v |-> template]
WithTimeProvider(provider) == [opt |-> "WithTimeProvider", v |-> provider]
WithTimeFormat(format) == [opt |-> "WithTimeFormat", v |-> format]
WithMaxSize(size) == [opt |-> "WithMaxSize", v |-> size]
WithCallerProvider(provider) == [opt |-> "WithCallerProvider", v |-> provider]
WithContext(ctx) == [opt |-> "WithContext", v |-> ctx]
WithPreHook(hook) == [opt |-> "WithPreHook", v |-> hook]
WithPostHook(hook) == [opt |-> "WithPostHook", v |-> hook]

\* ApplyOption with WithPostHook appending to the pre-hooks.
ApplyOptionPostIntoPre(o, lg) ==
    CASE o.opt = "WithOutput"         -> [lg EXCEPT !.output = o.v]
      [] o.opt = "WithTemplate"       -> [lg EXCEPT !.template = o.v]
      [] o.opt = "WithTimeProvider"   -> [lg EXCEPT !.now = o.v]
      [] o.opt = "WithTimeFormat"     -> [lg EXCEPT !.timeFormat = o.v]
      [] o.opt = "WithMaxSize"        -> [lg EXCEPT !.maxSize = o.v]
      [] o.opt = "WithCallerProvider" -> [lg EXCEPT !.callerProvider = o.v]
      [] o.opt = "WithContext"        -> [lg EXCEPT !.Context = o.v]
      [] o.opt = "WithPreHook"        -> [lg EXCEPT !.preHooks = Append(@, o.v)]
      [] o.opt = "WithPostHook"       -> [lg EXCEPT !.preHooks = Append(@, o.v)]

\* option(log): the body of the function each With... returns.
ApplyOption(o, lg) ==
    CASE o.opt = "WithOutput"         -> [lg EXCEPT !.output = o.v]
      [] o.opt = "WithTemplate"       -> [lg EXCEPT !.template = o.v]
      [] o.opt = "WithTimeProvider"   -> [lg EXCEPT !.now = o.v]
      [] o.opt = "WithTimeFormat"     -> [lg EXCEPT !.timeFormat = o.v]
      [] o.opt = "WithMaxSize"        -> [lg EXCEPT !.maxSize = o.v]
      [] o.opt = "WithCallerProvider" -> [lg EXCEPT !.callerProvider = o.v]
      [] o.opt = "WithContext"        -> [lg EXCEPT !.Context = o.v]
      [] o.opt = "WithPreHook"        -> [lg EXCEPT !.preHooks = Append(@, o.v)]
      [] o.opt = "WithPostHook"       -> [lg EXCEPT !.postHooks = Append(@, o.v)]

\* ------------------------------------------------------------- logger.go: New
DefaultMaxSize == 1000
\* runtime.Caller(5) as seen from a client's call site.
defaultCaller == [file |-> "main.go", line |-> 10, ok |-> TRUE]

RECURSIVE ApplyOptions(_, _, _)
ApplyOptions(options, i, lg) ==
    IF i > Len(options) THEN lg
    ELSE ApplyOptions(options, i + 1, ApplyOption(options[i], lg))

\* New(threshold, options...): the defaults, then every option in order.
New(threshold, options) ==
    ApplyOptions(options, 1,
        [Threshold      |-> threshold,
         Context        |-> "context.Background",
         output         |-> "os.Stdout",
         template       |-> DefaultTemplate,
         now            |-> "time.Now",
         timeFormat     |-> DefaultTimeFormat,
         maxSize        |-> DefaultMaxSize,
         callerProvider |-> defaultCaller,
         preHooks       |-> <<>>,
         postHooks      |-> <<>>])

\* ------------------------------------------------------------- logger.go: API
\* Every log method ends in one invocation of LogE; discard tells whether the
\* method drops LogE's result.
InvokeLogE(lvl, msg) == [level |-> lvl, message |-> msg, discard |-> FALSE]

Log(lvl, msg) == [InvokeLogE(lvl, msg) EXCEPT !.discard = TRUE]
\* Logf without the formatting.
LogfUnformatted(lvl, format, args) == Log(lvl, format)
Logf(lvl, format, args) == Log(lvl, Sprintf(format, args))
LogfE(lvl, format, args) == InvokeLogE(lvl, Sprintf(format, args))
Debug(msg) == Log(LevelDebug, msg)
Debugf(format, args) == Logf(LevelDebug, format, args)
Info(msg) == Log(LevelInfo, msg)
Infof(format, args) == Logf(LevelInfo, format, args)
Warn(msg) == Log(LevelWarn, msg)
Warnf(format, args) == Logf(LevelWarn, format, args)
Error(msg) == Log(LevelError, msg)
Errorf(format, args) == Logf(LevelError, format, args)
Fatal(msg) == Log(LevelFatal, msg)
Fatalf(format, args) == Logf(LevelFatal, format, args)

\* A request of a client: the method, and its arguments (level is used by
\* Log, LogE, Logf and LogfE only; plain methods take format as the message).
Dispatch(r) ==
    CASE r.api = "LogE"   -> InvokeLogE(r.level, r.format)
      [] r.api = "Log"    -> Log(r.level, r.format)
      [] r.api = "LogfE"  -> LogfE(r.level, r.format, r.args)
      [] r.api = "Logf"   -> Logf(r.level, r.format, r.args)
      [] r.api = "Debug"  -> Debug(r.format)
      [] r.api = "Debugf" -> Debugf(r.format, r.args)
      [] r.api = "Info"   -> Info(r.format)
      [] r.api = "Infof"  -> Infof(r.format, r.args)
      [] r.api = "Warn"   -> Warn(r.format)
      [] r.api = "Warnf"  -> Warnf(r.format, r.args)
      [] r.api = "Error"  -> Error(r.format)
      [] r.api = "Errorf" -> Errorf(r.format, r.args)
      [] r.api = "Fatal"  -> Fatal(r.format)
      [] r.api = "Fatalf" -> Fatalf(r.format, r.args)

\* ------------------------------------------------------------- clients
\* The message and the format with its arguments that the clients log:
\* Sprintf of the format with the arguments is the plain message.
Messages == {<<"h", "i">>}
Formats == {<<"h", "%s">>}
ArgLists == {<<"i">>}

PlainApis == {"LogE", "Log"}
FormatApis == {"LogfE", "Logf"}
LevelApis == {"Debug", "Info", "Warn", "Error", "Fatal"}
LevelfApis == {"Debugf", "Infof", "Warnf", "Errorf", "Fatalf"}

\* Every method, at every level.
AllRequests ==
    [api : PlainApis, level : Levels, format : Messages, args : {<<>>}]
    \cup [api : FormatApis, level : Levels, format : Formats, args : ArgLists]
    \cup [api : LevelApis, level : {LevelDebug}, format : Messages, args : {<<>>}]
    \cup [api : LevelfApis, level : {LevelDebug}, format : Formats, args : ArgLists]

\* The requests of the sequential client: LogE and Log at every level, LogfE
\* and Logf at one.
SeqRequests ==
    [api : PlainApis, level : Levels, format : Messages, args : {<<>>}]
    \cup [api : FormatApis, level : {LevelError}, format : Formats, args : ArgLists]

\* The requests of the concurrent clients: LogE with the message "hi", Infof
\* with a format that gives the message "yi".
ConcFormats == {<<"y", "%s">>}
ConcRequests ==
    [api : {"LogE"}, level : {LevelDebug, LevelError}, format : Messages, args : {<<>>}]
    \cup [api : {"Infof"}, level : {LevelDebug}, format : ConcFormats, args : ArgLists]

\* The configurations of the sequential client: the defaults and a malformed
\* template, which are tried with every threshold, ...
AnyThresholdLists ==
    << <<>>,
       <<WithTemplate(UnclosedTemplate), WithPreHook("A"), WithPreHook("B"),
         WithPostHook("B")>> >>
\* ... and the others, which are tried with these thresholds.
SeqThresholds == {LevelInfo, LevelError}
SeqOptionLists ==
    AnyThresholdLists \o
    << <<WithTemplate(UnknownFieldTemplate), WithPostHook("A")>>,
       <<WithTemplate(PrefixUnknownFieldTemplate), WithPreHook("A"),
         WithPostHook("B")>>,
       <<WithPreHook("A"), WithPreHook("B"), WithPostHook("A"), WithPostHook("B"),
         WithTemplate(ShortTemplate), WithMaxSize(3)>>,
       <<WithPreHook("B"), WithPreHook("A"), WithPostHook("B"), WithPostHook("A"),
         WithTemplate(ShortTemplate)>>,
       <<WithTemplate(CallerTemplate), WithCallerProvider(errorCallerProvider),
         WithTimeProvider("fakeNow"), WithMaxSize(1)>>,
       <<WithOutput("w"), WithTemplate(CallerTemplate),
         WithCallerProvider(okCallerProvider), WithContext("ctx"),
         WithTimeFormat(<<"05">>)>> >>

\* The configurations of the concurrent clients: their templates do not show
\* the time, and the time provider is a fixed instant, as in the tests.
ConcOptionLists ==
    << <<WithTimeProvider("fakeNow"), WithTemplate(ShortTemplate), WithPreHook("A"),
         WithPostHook("B")>>,
       <<WithTimeProvider("fakeNow"), WithTemplate(PrefixUnknownFieldTemplate),
         WithPreHook("A"), WithPostHook("B")>>,
       <<WithTimeProvider("fakeNow"), WithTemplate(UnclosedTemplate),
         WithPreHook("A")>> >>
ConcThresholds == {LevelInfo}

\* The client of the render data: messages of up to three units, every max
\* size from 0 to MaxSizeBound, every caller provider, the Caller field at
\* the start, in the middle and at the end of the template.
DataMessages == {<<>>, <<"h">>, <<"h", "i">>, <<"h", "i", "!">>}
DataRequests ==
    [api : {"LogE"}, level : {LevelDebug, LevelInfo}, format : DataMessages,
     args : {<<>>}]
DataMaxSizes == 0..MaxSizeBound
CallerProviders ==
    {okCallerProvider, errorCallerProvider, staleCallerProvider, defaultCaller}
DataTemplates == <<CallerTemplate, CompleteTemplate, MessageCallerTemplate>>
DataOptions(n, cp, template) ==
    <<WithTimeProvider("fakeNow"), WithTemplate(template), WithCallerProvider(cp),
      WithMaxSize(n), WithPreHook("A"), WithPostHook("B")>>

\* The client that passes its options in every order: three option lists
\* that together hold every kind of option, two pre-hooks, two post-hooks and
\* one kind twice.
BaseOptionLists ==
    << <<WithOutput("w"), WithTemplate(ShortTemplate), WithTimeProvider("fakeNow"),
         WithPreHook("A"), WithPreHook("B")>>,
       <<WithTimeFormat(<<"05">>), WithMaxSize(3),
         WithCallerProvider(okCallerProvider), WithPostHook("A"), WithPostHook("B")>>,
       <<WithContext("ctx"), WithPreHook("A"), WithPostHook("B"),
         WithTemplate(CallerTemplate), WithTemplate(ShortTemplate)>> >>
\* The options of a list in the order a permutation of its indices gives.
Permute(options, perm) == [i \in 1..Len(options) |-> options[perm[i]]]
OptionsRequests ==
    [api : {"LogE"}, level : {LevelError}, format : Messages, args : {<<>>}]

\* The clients whose calls must all return.
LiveOptionLists ==
    << <<WithTimeProvider("fakeNow"), WithTemplate(ShortTemplate), WithPreHook("A"),
         WithPostHook("B")>>,
       <<WithTimeProvider("fakeNow"), WithTemplate(PrefixUnknownFieldTemplate),
         WithPreHook("A"), WithPostHook("B")>> >>

\* The concurrent clients whose entries show the time: the clock is time.Now
\* and every call is emitted.
TimeTemplate == <<"{{", ".", "Time", "}}", " ", "{{", ".", "Message", "}}">>
OrderOptions ==
    <<WithTemplate(TimeTemplate), WithTimeFormat(<<"05">>), WithPreHook("A"),
      WithPostHook("B")>>
OrderRequests ==
    [api : {"LogE"}, level : {LevelError}, format : Messages, args : {<<>>}]
    \cup [api : {"Infof"}, level : {LevelDebug}, format : ConcFormats, args : ArgLists]
LiveRequests ==
    [api : {"LogE"}, level : {LevelDebug, LevelError}, format : Messages, args : {<<>>}]

\* The client whose post-hook logs through the Logger.
NestedThresholds == {LevelInfo, LevelFatal}
NestedOptionLists ==
    << <<WithTemplate(ShortTemplate), WithPreHook("A"), WithPostHook("N")>>,
       <<WithTemplate(ShortTemplate), WithPostHook("B"), WithPostHook("N"),
         WithPostHook("B")>>,
       <<WithTemplate(PrefixUnknownFieldTemplate), WithPostHook("N")>> >>
NestedRequests ==
    [api : {"LogE"}, level : {LevelDebug, LevelError, LevelFatal},
     format : {<<"h", "i">>, <<"n">>}, args : {<<>>}]

\* The client that logs at every value of Level the model has, one above
\* LevelFatal included, on Loggers with a negative, a zero and a positive max
\* size.
AnyLevels == LevelDebug..(LevelFatal + 1)
AnyMaxSizes == {-1, 0, 1}
AnyLevelRequests ==
    [api : {"LogE", "Log"}, level : AnyLevels, format : {<<>>, <<"h", "i">>},
     args : {<<>>}]
AnyOptions(n) ==
    <<WithTemplate(ShortTemplate), WithMaxSize(n), WithPreHook("A"), WithPostHook("B")>>

\* ------------------------------------------------------------- state
VARIABLES
    newArgs,    \* the arguments New was called with
    logger,     \* the Logger's fields
    mu,         \* Logger.mu: 0 when free, else the goroutine holding it
    sink,       \* what the output has received: units [by |-> call, s |-> unit]
    sinkOk,     \* whether the output still accepts writes
    clock,      \* the wall clock time.Now reads
    workload,   \* the requests the clients choose from
    budget,     \* calls each goroutine may still start
    ncalls,     \* calls each goroutine has started
    pc,         \* where each goroutine is in its call
    req,        \* the request of the goroutine's call
    level,      \* LogE's level parameter
    message,    \* LogE's message parameter, which the hooks rewrite
    msg0,       \* the message as LogE received it
    discard,    \* whether the method called drops LogE's result
    hk,         \* index of the next hook of the running loop
    data,       \* the templateData of the call
    tmpl,       \* the parsed template of the call
    ni,         \* index of the next template node to execute
    err,        \* the error LogE returns (<<>> is nil)
    ret,        \* what the method called handed back to the client
    trace,      \* the steps the call has taken so far
    emitted,    \* the calls at level >= Threshold that returned nil
    stack,      \* the frames of the LogE calls that wait in a post-hook for a call it made
    stamp,      \* the time the call sampled and the clock when it took the lock
    prevErr     \* the last error LogE returned to the goroutine in an earlier call

frameVars == <<req, level, message, msg0, discard, hk, data, tmpl, ni, err, ret, trace>>
vars == <<newArgs, logger, mu, sink, sinkOk, clock, workload, budget, ncalls, pc, req,
          level, message, msg0, discard, hk, data, tmpl, ni, err, ret, trace, emitted,
          stack, stamp, prevErr>>

NoError == <<>>
NoStamp == [sampled |-> 0, locked |-> 0]
NoResult == <<"no result">>
NoData == [Level |-> <<>>, Time |-> <<>>, Message |-> <<>>, Caller |-> <<>>]
NoRequest == [api |-> "", level |-> LevelDebug, format |-> <<>>, args |-> <<>>]

\* The call a goroutine is in (or was last in): the goroutine, the number of
\* its client's call and the depth of the call below it.
CallId(p) == <<p, ncalls[p], Len(stack[p])>>

InitCommon ==
    /\ mu = 0
    /\ sink = <<>>
    /\ sinkOk = TRUE
    /\ clock = 1
    /\ ncalls = [p \in Procs |-> 0]
    /\ pc = [p \in Procs |-> "idle"]
    /\ req = [p \in Procs |-> NoRequest]
    /\ level = [p \in Procs |-> LevelDebug]
    /\ message = [p \in Procs |-> <<>>]
    /\ msg0 = [p \in Procs |-> <<>>]
    /\ discard = [p \in Procs |-> FALSE]
    /\ hk = [p \in Procs |-> 1]
    /\ data = [p \in Procs |-> NoData]
    /\ tmpl = [p \in Procs |-> <<>>]
    /\ ni = [p \in Procs |-> 1]
    /\ err = [p \in Procs |-> NoError]
    /\ ret = [p \in Procs |-> NoResult]
    /\ trace = [p \in Procs |-> <<>>]
    /\ emitted = {}
    /\ prevErr = [p \in Procs |-> NoError]
    /\ stack = [p \in Procs |-> <<>>]
    /\ stamp = [p \in Procs |-> NoStamp]

\* One goroutine logs MaxCalls times in a row, on a Logger with any threshold
\* for the first configurations and one of SeqThresholds for the others.
Init ==
    /\ InitCommon
    /\ \E t \in Levels, i \in 1..Len(SeqOptionLists) :
          /\ i > Len(AnyThresholdLists) => t \in SeqThresholds
          /\ newArgs = [threshold |-> t, options |-> SeqOptionLists[i]]
          /\ logger = New(t, SeqOptionLists[i])
    /\ workload = SeqRequests
    /\ budget = [p \in Procs |-> IF p = 1 THEN MaxCalls ELSE 0]

\* One goroutine logs once, through any method.
InitMethods ==
    /\ InitCommon
    /\ \E t \in Levels, i \in 1..Len(SeqOptionLists) :
          /\ i > Len(AnyThresholdLists) => t \in SeqThresholds
          /\ newArgs = [threshold |-> t, options |-> SeqOptionLists[i]]
          /\ logger = New(t, SeqOptionLists[i])
    /\ workload = AllRequests
    /\ budget = [p \in Procs |-> IF p = 1 THEN 1 ELSE 0]

\* Every goroutine logs once, as in the README's example.
InitConc ==
    /\ InitCommon
    /\ \E t \in ConcThresholds, i \in 1..Len(ConcOptionLists) :
          /\ newArgs = [threshold |-> t, options |-> ConcOptionLists[i]]
          /\ logger = New(t, ConcOptionLists[i])
    /\ workload = ConcRequests
    /\ budget = [p \in Procs |-> 1]

\* One goroutine logs one message through LogE on a Logger with a max size,
\* a caller provider and a template that shows the Caller field.
InitData ==
    /\ InitCommon
    /\ \E n \in DataMaxSizes, cp \in CallerProviders, i \in 1..Len(DataTemplates) :
          /\ newArgs = [threshold |-> LevelInfo,
                        options |-> DataOptions(n, cp, DataTemplates[i])]
          /\ logger = New(LevelInfo, DataOptions(n, cp, DataTemplates[i]))
    /\ workload = DataRequests
    /\ budget = [p \in Procs |-> IF p = 1 THEN 1 ELSE 0]

\* One goroutine logs once on a Logger built from a base option list in any
\* order of its options.
InitOptions ==
    /\ InitCommon
    /\ \E t \in SeqThresholds, b \in 1..Len(BaseOptionLists) :
          \E perm \in Permutations(1..Len(BaseOptionLists[b])) :
              /\ newArgs = [threshold |-> t,
                            options |-> Permute(BaseOptionLists[b], perm)]
              /\ logger = New(t, Permute(BaseOptionLists[b], perm))
    /\ workload = OptionsRequests
    /\ budget = [p \in Procs |-> IF p = 1 THEN 1 ELSE 0]

\* Every goroutine logs once, every call is emitted, on a Logger that reads
\* the clock and shows the time.
InitOrder ==
    /\ InitCommon
    /\ newArgs = [threshold |-> LevelInfo, options |-> OrderOptions]
    /\ logger = New(LevelInfo, OrderOptions)
    /\ workload = OrderRequests
    /\ budget = [p \in Procs |-> 1]

\* Every goroutine logs once through LogE, at a level below or above the
\* threshold, on a Logger whose template is valid or fails under the lock.
InitLive ==
    /\ InitCommon
    /\ \E i \in 1..Len(LiveOptionLists) :
          /\ newArgs = [threshold |-> LevelInfo, options |-> LiveOptionLists[i]]
          /\ logger = New(LevelInfo, LiveOptionLists[i])
    /\ workload = LiveRequests
    /\ budget = [p \in Procs |-> 1]

\* One goroutine logs once on a Logger with the post-hook that logs; the
\* threshold lets the hook's call (at LevelError) through or drops it.
InitNested ==
    /\ InitCommon
    /\ \E t \in NestedThresholds, i \in 1..Len(NestedOptionLists) :
          /\ newArgs = [threshold |-> t, options |-> NestedOptionLists[i]]
          /\ logger = New(t, NestedOptionLists[i])
    /\ workload = NestedRequests
    /\ budget = [p \in Procs |-> IF p = 1 THEN 1 ELSE 0]

\* One goroutine logs once, at any level, on a Logger with any max size.
InitAny ==
    /\ InitCommon
    /\ \E t \in SeqThresholds, n \in AnyMaxSizes :
          /\ newArgs = [threshold |-> t, options |-> AnyOptions(n)]
          /\ logger = New(t, AnyOptions(n))
    /\ workload = AnyLevelRequests
    /\ budget = [p \in Procs |-> IF p = 1 THEN 1 ELSE 0]

\* ------------------------------------------------------------- logger.go: LogE
Step(p, e) == trace' = [trace EXCEPT ![p] = Append(@, e)]

\* range over a hook list: the i-th hook run is the i-th registered, and the
\* loop goes on while hooks are left.
HookAtReversed(hooks, i) == hooks[Len(hooks) + 1 - i]
HookAt(hooks, i) == hooks[i]
MoreHooksButLast(hooks, i) == i < Len(hooks)
MoreHooks(hooks, i) == i <= Len(hooks)

\* hook(l, &message): a hook receives the Logger and the pending message by
\* reference; the hooks rewrite the message and leave the Logger alone.
RunHookLoweringThreshold(h, lg, msg) ==
    [l |-> [lg EXCEPT !.Threshold = LevelDebug], message |-> HookBody(h, msg)]
RunHook(h, lg, msg) == [l |-> lg, message |-> HookBody(h, msg)]

\* The pending message of a call is LogE's parameter: each call has its own.
PendingShared(msgs, p) == msgs[1]
Pending(msgs, p) == msgs[p]

\* l.Threshold > level: the call is dropped.
BelowThresholdReversed(lg, lvl) == lg.Threshold < lvl
BelowThreshold(lg, lvl) == lg.Threshold > lvl

\* errors.New("error parsing template: " + err.Error())
ParseErrorAsExec(e) == <<"error executing template: ", e>>
ParseError(e) == <<"error parsing template: ", e>>
\* errors.New("error executing template: " + err.Error())
ExecError(e) == <<"error executing template: ", e>>

\* Where LogE goes on after one node of tmpl.Execute: an error returns (the
\* deferred unlock runs), the last node leads to the post-hooks.
AfterNodeReturnOnFailure(fail, last) ==
    IF fail # "" THEN "ret" ELSE IF last THEN "post" ELSE "exec"
AfterNodePostOnFailure(fail, last) ==
    IF fail # "" \/ last THEN "post" ELSE "exec"
AfterNode(fail, last) ==
    IF fail # "" THEN "unlock" ELSE IF last THEN "post" ELSE "exec"

\* What stops tmpl.Execute at a node: the node's evaluation error, else the
\* error of the output's Write.
NodeFailureIgnoringWrite(evalErr, writeOk) == evalErr
NodeFailure(evalErr, writeOk) ==
    IF evalErr # "" THEN evalErr ELSE IF ~writeOk THEN "write failed" ELSE ""

\* l.mu.Lock() goes through when no goroutine holds the lock.
LockFreeAlways(m) == TRUE
LockFree(m) == m = 0

\* A client calls a log method: the wrappers delegate down to LogE.
Call(p) ==
    /\ pc[p] \in {"idle", "done"}
    /\ budget[p] > 0
    /\ \E r \in workload :
          LET c == Dispatch(r) IN
          /\ req' = [req EXCEPT ![p] = r]
          /\ level' = [level EXCEPT ![p] = c.level]
          /\ message' = [message EXCEPT ![p] = c.message]
          /\ msg0' = [msg0 EXCEPT ![p] = c.message]
          /\ discard' = [discard EXCEPT ![p] = c.discard]
    /\ budget' = [budget EXCEPT ![p] = @ - 1]
    /\ ncalls' = [ncalls EXCEPT ![p] = @ + 1]
    /\ pc' = [pc EXCEPT ![p] = "pre"]
    /\ hk' = [hk EXCEPT ![p] = 1]
    /\ data' = [data EXCEPT ![p] = NoData]
    /\ tmpl' = [tmpl EXCEPT ![p] = <<>>]
    /\ ni' = [ni EXCEPT ![p] = 1]
    /\ err' = [err EXCEPT ![p] = NoError]
    /\ ret' = [ret EXCEPT ![p] = NoResult]
    /\ trace' = [trace EXCEPT ![p] = <<>>]
    /\ prevErr' = [prevErr EXCEPT ![p] = IF err[p] # NoError THEN err[p] ELSE @]
    /\ stamp' = [stamp EXCEPT ![p] = NoStamp]
    /\ UNCHANGED <<stack, newArgs, logger, workload, mu, sink, sinkOk, clock, emitted>>

\* for _, hook := range l.preHooks: the next pre-hook is entered ...
PreHookBegin(p) ==
    /\ pc[p] = "pre"
    /\ MoreHooks(logger.preHooks, hk[p])
    /\ pc' = [pc EXCEPT ![p] = "inpre"]
    /\ UNCHANGED <<stamp, stack, newArgs, prevErr, logger, workload, mu, sink, sinkOk, clock, budget, ncalls,
                   emitted, frameVars>>

\* ... and returns, having rewritten the message.
PreHookEnd(p) ==
    /\ pc[p] = "inpre"
    /\ LET r == RunHook(HookAt(logger.preHooks, hk[p]), logger, Pending(message, p)) IN
       /\ message' = [message EXCEPT ![p] = r.message]
       /\ logger' = r.l
    /\ Step(p, <<"pre", HookAt(logger.preHooks, hk[p])>>)
    /\ hk' = [hk EXCEPT ![p] = @ + 1]
    /\ pc' = [pc EXCEPT ![p] = "pre"]
    /\ UNCHANGED <<stamp, stack, newArgs, prevErr, workload, mu, sink, sinkOk, clock, budget, ncalls,
                   emitted, req, level, msg0, discard, data, tmpl, ni, err, ret>>

\* if l.Threshold > level { return nil }
ThresholdCheck(p) ==
    /\ pc[p] = "pre"
    /\ ~MoreHooks(logger.preHooks, hk[p])
    /\ Step(p, <<"check", "">>)
    /\ pc' = [pc EXCEPT ![p] = IF BelowThreshold(logger, level[p]) THEN "ret" ELSE "data"]
    /\ UNCHANGED <<stamp, stack, newArgs, prevErr, logger, workload, mu, sink, sinkOk, clock, budget, ncalls,
                   emitted, req, level, message, msg0, discard, hk, data, tmpl,
                   ni, err, ret>>

\* data := getTemplateData(level, message, l); time.Now moves on. A panic in
\* it is not recovered: the goroutine (and the program) stops there.
GetTemplateData(p) ==
    /\ pc[p] = "data"
    /\ LET panics == Panics(level[p], Pending(message, p), logger) IN
       /\ data' = IF panics THEN data
                  ELSE [data EXCEPT ![p] =
                          getTemplateData(level[p], Pending(message, p), logger, clock)]
       /\ Step(p, IF panics THEN <<"panic", "">> ELSE <<"data", "">>)
       /\ pc' = [pc EXCEPT ![p] = IF panics THEN "panic" ELSE "parse"]
    /\ clock' = IF logger.now = "time.Now" /\ level[p] <= LevelFatal
              THEN clock + 1 ELSE clock
    /\ stamp' = IF level[p] > LevelFatal THEN stamp
              ELSE [stamp EXCEPT ![p].sampled = Now(logger.now, clock)]
    /\ UNCHANGED <<stack, newArgs, prevErr, logger, workload, mu, sink, sinkOk, budget, ncalls, emitted,
                   req, level, message, msg0, discard, hk, tmpl, ni, err, ret>>

\* tmpl, err := template.New("log").Parse(l.template + "\n")
ParseTemplate(p) ==
    /\ pc[p] = "parse"
    /\ LET r == Parse(Append(logger.template, "\n")) IN
       /\ tmpl' = [tmpl EXCEPT ![p] = r.nodes]
       /\ err' = [err EXCEPT ![p] =
                    IF r.err # "" THEN ParseError(r.err)
                    ELSE NoError]
       /\ pc' = [pc EXCEPT ![p] = IF r.err # "" THEN "ret" ELSE "lock"]
    /\ Step(p, <<"parse", "">>)
    /\ UNCHANGED <<stamp, stack, newArgs, prevErr, logger, workload, mu, sink, sinkOk, clock, budget, ncalls,
                   emitted, req, level, message, msg0, discard, hk, data, ni, ret>>

\* l.mu.Lock(); defer l.mu.Unlock()
Lock(p) ==
    /\ pc[p] = "lock"
    /\ LockFree(mu)
    /\ mu' = p
    /\ ni' = [ni EXCEPT ![p] = 1]
    /\ Step(p, <<"lock", "">>)
    /\ pc' = [pc EXCEPT ![p] = "exec"]
    /\ stamp' = [stamp EXCEPT ![p].locked = clock]
    /\ UNCHANGED <<stack, newArgs, prevErr, logger, workload, sink, sinkOk, clock, budget, ncalls, emitted,
                   req, level, message, msg0, discard, hk, data, tmpl, err, ret>>

\* tmpl.Execute(l.output, data), one node at a time: a node is evaluated and
\* its bytes are written to the output; the first failure stops the
\* execution and what was written before it stays written.
ExecNode(p) ==
    /\ pc[p] = "exec"
    /\ LET r == EvalNode(tmpl[p][ni[p]], data[p])
           fail == NodeFailure(r.err, sinkOk)
           last == ni[p] = Len(tmpl[p])
       IN
       /\ sink' = IF r.err = "" /\ sinkOk
                  THEN sink \o [i \in 1..Len(r.bytes) |->
                                   [by |-> CallId(p), s |-> r.bytes[i]]]
                  ELSE sink
       /\ err' = [err EXCEPT ![p] =
                    IF fail # "" THEN ExecError(fail)
                    ELSE NoError]
       /\ ni' = [ni EXCEPT ![p] = IF fail = "" THEN @ + 1 ELSE @]
       /\ hk' = [hk EXCEPT ![p] = 1]
       /\ pc' = [pc EXCEPT ![p] = AfterNode(fail, last)]
       /\ Step(p, IF fail # "" THEN <<"failed", "">>
                  ELSE IF last THEN <<"written", "">> ELSE <<"write", "">>)
    /\ UNCHANGED <<stamp, stack, newArgs, prevErr, logger, workload, mu, sinkOk, clock, budget, ncalls, emitted,
                   req, level, message, msg0, discard, data, tmpl, ret>>

\* for _, hook := range l.postHooks: the next post-hook is entered ...
PostHookBegin(p) ==
    /\ pc[p] = "post"
    /\ MoreHooks(logger.postHooks, hk[p])
    /\ pc' = [pc EXCEPT ![p] = "inpost"]
    /\ UNCHANGED <<stamp, stack, newArgs, prevErr, logger, workload, mu, sink, sinkOk, clock, budget, ncalls,
                   emitted, frameVars>>

\* ... and returns, having rewritten the message.
PostHookEnd(p) ==
    /\ \/ pc[p] = "inpostback"
       \/ /\ pc[p] = "inpost"
          /\ ~CallsLogger(HookAt(logger.postHooks, hk[p]), Pending(message, p))
    /\ LET r == RunHook(HookAt(logger.postHooks, hk[p]), logger, Pending(message, p)) IN
       /\ message' = [message EXCEPT ![p] = r.message]
       /\ logger' = r.l
    /\ Step(p, <<"post", HookAt(logger.postHooks, hk[p])>>)
    /\ hk' = [hk EXCEPT ![p] = @ + 1]
    /\ pc' = [pc EXCEPT ![p] = "post"]
    /\ UNCHANGED <<stamp, stack, newArgs, prevErr, workload, mu, sink, sinkOk, clock, budget, ncalls,
                   emitted, req, level, msg0, discard, data, tmpl, ni, err, ret>>

\* return nil after the post-hooks.
PostHooksDone(p) ==
    /\ pc[p] = "post"
    /\ ~MoreHooks(logger.postHooks, hk[p])
    /\ pc' = [pc EXCEPT ![p] = "unlock"]
    /\ UNCHANGED <<stamp, stack, newArgs, prevErr, logger, workload, mu, sink, sinkOk, clock, budget, ncalls,
                   emitted, frameVars>>

\* The deferred l.mu.Unlock() runs as LogE returns.
DeferredUnlock(p) ==
    /\ pc[p] = "unlock"
    /\ mu' = IF mu = p THEN 0 ELSE mu
    /\ Step(p, <<"unlock", "">>)
    /\ pc' = [pc EXCEPT ![p] = "ret"]
    /\ UNCHANGED <<stamp, stack, newArgs, prevErr, logger, workload, sink, sinkOk, clock, budget, ncalls, emitted,
                   req, level, message, msg0, discard, hk, data, tmpl, ni, err, ret>>

\* LogE has returned: LogE and LogfE hand the error to the client, the other
\* methods drop it (_ = l.LogE(level, message)).
Return(p) ==
    /\ pc[p] = "ret"
    /\ stack[p] = <<>>
    /\ ret' = [ret EXCEPT ![p] = IF discard[p] THEN NoResult ELSE err[p]]
    /\ emitted' = IF level[p] >= logger.Threshold /\ err[p] = NoError
                  THEN emitted \cup {CallId(p)} ELSE emitted
    /\ pc' = [pc EXCEPT ![p] = "done"]
    /\ UNCHANGED <<stamp, stack, newArgs, prevErr, logger, workload, mu, sink, sinkOk, clock, budget, ncalls,
                   req, level, message, msg0, discard, hk, data, tmpl, ni, err,
                   trace>>

\* A post-hook calls l.Log(LevelError, "n") on the Logger it received: LogE
\* runs in the same goroutine, on top of the call whose post-hook it is.
HookCallsLog(p) ==
    /\ pc[p] = "inpost"
    /\ CallsLogger(HookAt(logger.postHooks, hk[p]), Pending(message, p))
    /\ stack' = [stack EXCEPT ![p] =
                    Append(@, [level |-> level[p], message |-> message[p],
                               msg0 |-> msg0[p], discard |-> discard[p],
                               hk |-> hk[p], data |-> data[p], tmpl |-> tmpl[p],
                               stamp |-> stamp[p],
                               ni |-> ni[p], err |-> err[p], trace |-> trace[p]])]
    /\ LET c == Log(LevelError, <<"n">>) IN
       /\ level' = [level EXCEPT ![p] = c.level]
       /\ message' = [message EXCEPT ![p] = c.message]
       /\ msg0' = [msg0 EXCEPT ![p] = c.message]
       /\ discard' = [discard EXCEPT ![p] = c.discard]
    /\ pc' = [pc EXCEPT ![p] = "pre"]
    /\ hk' = [hk EXCEPT ![p] = 1]
    /\ data' = [data EXCEPT ![p] = NoData]
    /\ tmpl' = [tmpl EXCEPT ![p] = <<>>]
    /\ ni' = [ni EXCEPT ![p] = 1]
    /\ err' = [err EXCEPT ![p] = NoError]
    /\ trace' = [trace EXCEPT ![p] = <<>>]
    /\ UNCHANGED <<newArgs, prevErr, logger, workload, mu, sink, sinkOk, clock, budget,
                   ncalls, emitted, req, ret>>
    /\ stamp' = [stamp EXCEPT ![p] = NoStamp]

\* The call a post-hook made has returned: the hook goes on in the call
\* whose post-hook it is.
HookLogReturns(p) ==
    /\ pc[p] = "ret"
    /\ stack[p] # <<>>
    /\ LET f == stack[p][Len(stack[p])] IN
       /\ level' = [level EXCEPT ![p] = f.level]
       /\ message' = [message EXCEPT ![p] = f.message]
       /\ msg0' = [msg0 EXCEPT ![p] = f.msg0]
       /\ discard' = [discard EXCEPT ![p] = f.discard]
       /\ hk' = [hk EXCEPT ![p] = f.hk]
       /\ data' = [data EXCEPT ![p] = f.data]
       /\ tmpl' = [tmpl EXCEPT ![p] = f.tmpl]
       /\ ni' = [ni EXCEPT ![p] = f.ni]
       /\ err' = [err EXCEPT ![p] = f.err]
       /\ trace' = [trace EXCEPT ![p] = f.trace]
    /\ stack' = [stack EXCEPT ![p] = SubSeq(@, 1, Len(@) - 1)]
    /\ emitted' = IF level[p] >= logger.Threshold /\ err[p] = NoError
                  THEN emitted \cup {CallId(p)} ELSE emitted
    /\ pc' = [pc EXCEPT ![p] = "inpostback"]
    /\ UNCHANGED <<newArgs, prevErr, logger, workload, mu, sink, sinkOk, clock, budget,
                   ncalls, req, ret>>
    /\ stamp' = [stamp EXCEPT ![p] = stack[p][Len(stack[p])].stamp]

\* The output stops accepting writes (a closed pipe, a full disk) while a
\* call is executing its template; a failure at any other time shows only at
\* the next write, as one at the start of the next execution does.
SinkBreaks ==
    /\ sinkOk
    /\ \E p \in Procs : pc[p] = "exec"
    /\ sinkOk' = FALSE
    /\ UNCHANGED <<stamp, stack, newArgs, prevErr, logger, workload, mu, sink, clock, budget, ncalls, pc, emitted,
                   frameVars>>

Next ==
    \/ \E p \in Procs : Call(p)
    \/ \E p \in Procs : PreHookBegin(p)
    \/ \E p \in Procs : PreHookEnd(p)
    \/ \E p \in Procs : ThresholdCheck(p)
    \/ \E p \in Procs : GetTemplateData(p)
    \/ \E p \in Procs : ParseTemplate(p)
    \/ \E p \in Procs : Lock(p)
    \/ \E p \in Procs : ExecNode(p)
    \/ \E p \in Procs : PostHookBegin(p)
    \/ \E p \in Procs : PostHookEnd(p)
    \/ \E p \in Procs : PostHooksDone(p)
    \/ \E p \in Procs : DeferredUnlock(p)
    \/ \E p \in Procs : Return(p)
    \/ SinkBreaks

Spec == Init /\ [][Next]_vars
SpecMethods == InitMethods /\ [][Next]_vars
SpecConc == InitConc /\ [][Next]_vars
SpecData == InitData /\ [][Next]_vars
SpecOptions == InitOptions /\ [][Next]_vars
SpecAny == InitAny /\ [][Next]_vars
SpecOrder == InitOrder /\ [][Next]_vars

\* The steps of a program whose post-hooks log through the Logger.
NextNested ==
    \/ Next
    \/ \E p \in Procs : HookCallsLog(p)
    \/ \E p \in Procs : HookLogReturns(p)
SpecNested == InitNested /\ [][NextNested]_vars

\* The goroutines inside LogE keep running: a hook returns, Write returns,
\* l.mu.Lock() returns when the lock is free; as long as some goroutine can
\* take a step of LogE, one of them does (the Go scheduler runs every
\* runnable goroutine, which is more than this asks). Nothing makes a client
\* call, and nothing makes the sink break.
InLogE(p) ==
    \/ PreHookBegin(p) \/ PreHookEnd(p) \/ ThresholdCheck(p) \/ GetTemplateData(p)
    \/ ParseTemplate(p) \/ Lock(p) \/ ExecNode(p) \/ PostHookBegin(p)
    \/ PostHookEnd(p) \/ PostHooksDone(p) \/ DeferredUnlock(p) \/ Return(p)
Fairness == WF_vars(\E p \in Procs : InLogE(p))
SpecLive == InitLive /\ [][Next]_vars /\ Fairness

\* ------------------------------------------------------------- properties
\* What a call has put into the sink, in order.
Owned(c) == SelectSeq(sink, LAMBDA u : u.by = c)
\* The calls that have put something into the sink.
Writers == {sink[i].by : i \in 1..Len(sink)}
\* The units of call c lie next to each other in the sink.
Contiguous(c) ==
    \A i, j, k \in 1..Len(sink) :
        (i < j /\ j < k /\ sink[i].by = c /\ sink[k].by = c) => sink[j].by = c
\* Call c's part of the sink is one whole entry: it ends with the newline
\* that closes every entry and holds no other newline.
WholeEntry(c) ==
    LET o == Owned(c) IN
    /\ o # <<>>
    /\ o[Len(o)].s = "\n"
    /\ \A i \in 1..(Len(o) - 1) : o[i].s # "\n"
\* The number of newline-terminated entries in the sink.
NumEntries == Cardinality({i \in 1..Len(sink) : sink[i].s = "\n"})
\* The goroutine's call has left LogE.
Returned(p) == pc[p] \in {"ret", "done"}
\* No call is in progress.
Quiescent == \A p \in Procs : pc[p] \in {"idle", "done"}
\* The events of kind k in the trace of p's call, in order.
Events(p, k) == SelectSeq(trace[p], LAMBDA e : e[1] = k)
\* The position of the first event of kind k in the trace of p's call, or 0.
FirstAt(p, k) ==
    IF \E i \in 1..Len(trace[p]) : trace[p][i][1] = k
    THEN CHOOSE i \in 1..Len(trace[p]) :
            /\ trace[p][i][1] = k
            /\ \A j \in 1..(i - 1) : trace[p][j][1] # k
    ELSE 0
\* The template is well formed and names only fields of the render data.
ValidTemplate ==
    LET r == Parse(Append(logger.template, "\n")) IN
    /\ r.err = ""
    /\ \A i \in 1..Len(r.nodes) :
          r.nodes[i].k = "field" => r.nodes[i].v \in DataFields
RenderKinds == {"data", "parse", "lock", "write", "written", "failed"}

\* C1: with a sink that accepts every write, the sink content is at every
\* moment a concatenation of whole rendered entries, one block per call, plus
\* at most one entry in progress, which is the lock holder's and is the last
\* block: the units of two calls are never interleaved or spliced.
C1_WholeEntriesOnly ==
    sinkOk =>
        \A c \in Writers :
            /\ Contiguous(c)
            /\ \/ WholeEntry(c)
               \/ \E p \in Procs :
                     mu = p /\ CallId(p) = c /\ sink[Len(sink)].by = c

\* C2: a call below the threshold returns nil, writes nothing to the sink,
\* does not assemble render data or parse or execute the template and runs
\* no post-hook, whatever the template is.
C2_DroppedBelowThreshold ==
    \A p \in Procs :
        (pc[p] \notin {"idle", "pre", "inpre"} /\ level[p] < logger.Threshold) =>
            /\ Returned(p)
            /\ err[p] = NoError
            /\ ret[p] \in {NoError, NoResult}
            /\ Owned(CallId(p)) = <<>>
            /\ data[p] = NoData /\ tmpl[p] = <<>>
            /\ \A i \in 1..Len(trace[p]) :
                  trace[p][i][1] \notin RenderKinds \cup {"post", "unlock"}

\* C2 witness: a call below the threshold has returned on a Logger whose
\* template is malformed and that has pre-hooks and post-hooks.
C2_Witness ==
    \E p \in Procs :
        /\ pc[p] = "done"
        /\ level[p] < logger.Threshold
        /\ logger.template = UnclosedTemplate
        /\ logger.postHooks # <<>>
        /\ Events(p, "pre") # <<>>

\* C3: with a sink that accepts every write, a call at a level >= the
\* threshold on a valid template returns nil and has appended exactly one
\* newline-terminated entry; and when no call is in progress the number of
\* entries in the sink is the number of calls at a level >= the threshold
\* that returned nil, and no other call has put units into the sink.
C3_OneEntryPerEmittedCall ==
    sinkOk =>
        /\ \A p \in Procs :
              (Returned(p) /\ level[p] >= logger.Threshold /\ ValidTemplate) =>
                  err[p] = NoError /\ WholeEntry(CallId(p)) /\ Contiguous(CallId(p))
        /\ Quiescent =>
              /\ NumEntries = Cardinality(emitted)
              /\ Writers \subseteq emitted

\* The number of times hook h is registered in the list hooks.
Registered(hooks, h) == Cardinality({i \in 1..Len(hooks) : hooks[i] = h})
\* The number of events <<k, h>> in the trace of p's call.
Ran(p, k, h) == Cardinality({i \in 1..Len(trace[p]) : trace[p][i] = <<k, h>>})

\* C4: a call that has reached its threshold check has run every registered
\* pre-hook exactly once, and all of them before the threshold check and
\* before any step of the rendering; also when the call is dropped by the
\* threshold or its template fails.
C4_PreHooksOnceBeforeCheck ==
    \A p \in Procs :
        pc[p] \notin {"idle", "pre", "inpre"} =>
            /\ \A h \in Hooks : Ran(p, "pre", h) = Registered(logger.preHooks, h)
            /\ FirstAt(p, "check") = Len(logger.preHooks) + 1
            /\ \A i \in 1..Len(trace[p]) :
                  trace[p][i][1] = "pre" => i < FirstAt(p, "check")
            /\ \A i \in 1..Len(trace[p]) :
                  trace[p][i][1] \in RenderKinds => i > FirstAt(p, "check")

\* C4 witness: a call dropped by the threshold has returned on a Logger with
\* two pre-hooks.
C4_Witness ==
    \E p \in Procs :
        /\ pc[p] = "done"
        /\ level[p] < logger.Threshold
        /\ Len(logger.preHooks) = 2
        /\ Len(Events(p, "pre")) = 2

\* C5: a post-hook of a call runs only after the call's entry has been
\* written completely; a call that returned nil at a level >= the threshold
\* has run every registered post-hook exactly once, and a call whose template
\* parsing, template execution or sink write failed has run none.
C5_PostHooksAfterWrite ==
    \A p \in Procs :
        /\ \A i \in 1..Len(trace[p]) :
              trace[p][i][1] = "post" =>
                  /\ FirstAt(p, "written") # 0
                  /\ FirstAt(p, "written") < i
                  /\ WholeEntry(CallId(p))
        /\ pc[p] = "inpost" => FirstAt(p, "written") # 0 /\ WholeEntry(CallId(p))
        /\ (Returned(p) /\ err[p] = NoError /\ level[p] >= logger.Threshold) =>
              \A h \in Hooks : Ran(p, "post", h) = Registered(logger.postHooks, h)
        /\ err[p] # NoError => Events(p, "post") = <<>> /\ pc[p] # "inpost"

\* C5 witness: a call whose template execution failed has returned on a
\* Logger with a post-hook.
C5_Witness ==
    \E p \in Procs :
        /\ pc[p] = "done"
        /\ err[p] = ExecError("can't evaluate field")
        /\ logger.postHooks # <<>>

\* The arguments of the options named opt in an option list, in order.
RECURSIVE OptionArgs(_, _, _)
OptionArgs(options, opt, i) ==
    IF i > Len(options) THEN <<>>
    ELSE (IF options[i].opt = opt THEN <<options[i].v>> ELSE <<>>)
         \o OptionArgs(options, opt, i + 1)

\* C6: hooks run in registration order. The pre-hooks a call has run are, in
\* order, the first of the registered pre-hooks, and all of them once the
\* threshold check is reached; the render data holds the message rewritten
\* by them in that order; the post-hooks a call has run are, in order, the
\* first of the registered post-hooks, and all of them when the call returns
\* nil after a write; and New registers the hooks in the order of its options.
C6_HooksInRegistrationOrder ==
    /\ \A p \in Procs :
          LET pre == Events(p, "pre")
              post == Events(p, "post")
          IN
          /\ Len(pre) <= Len(logger.preHooks)
          /\ \A i \in 1..Len(pre) : pre[i][2] = logger.preHooks[i]
          /\ pc[p] \notin {"idle", "pre", "inpre"} =>
                Len(pre) = Len(logger.preHooks)
          /\ Len(post) <= Len(logger.postHooks)
          /\ \A i \in 1..Len(post) : post[i][2] = logger.postHooks[i]
          /\ (Returned(p) /\ err[p] = NoError /\ level[p] >= logger.Threshold) =>
                Len(post) = Len(logger.postHooks)
          /\ (logger.preHooks = <<"A", "B">> /\ data[p] # NoData) =>
                data[p].Message =
                    truncateString(msg0[p] \o <<"a", "b">>, logger.maxSize)
          /\ (logger.preHooks = <<"B", "A">> /\ data[p] # NoData) =>
                data[p].Message =
                    truncateString(msg0[p] \o <<"b", "a">>, logger.maxSize)
    /\ (\A p \in Procs : pc[p] = "idle") =>
          \A i \in 1..Len(SeqOptionLists) :
              logger = New(logger.Threshold, SeqOptionLists[i]) =>
                  /\ logger.preHooks
                        = OptionArgs(SeqOptionLists[i], "WithPreHook", 1)
                  /\ logger.postHooks
                        = OptionArgs(SeqOptionLists[i], "WithPostHook", 1)

\* C6 witness: a call has returned nil after its write on a Logger built
\* with pre-hooks [A, B] and post-hooks [A, B].
C6_Witness ==
    \E p \in Procs :
        /\ pc[p] = "done"
        /\ err[p] = NoError
        /\ logger.preHooks = <<"A", "B">>
        /\ logger.postHooks = <<"A", "B">>
        /\ Events(p, "pre") = << <<"pre", "A">>, <<"pre", "B">> >>
        /\ Events(p, "post") = << <<"post", "A">>, <<"post", "B">> >>

\* The call's template failed: at parse time, or at execution time on a
\* field the render data does not have.
TemplateFailed(p) ==
    /\ err[p] # NoError
    /\ err[p][2] # "write failed"

\* C7: a call whose template failed, at parse time or at execution time, has
\* written nothing to the sink, also when text or valid fields stand in front
\* of the failing field.
C7_FailedCallWritesNothing ==
    \A p \in Procs :
        (Returned(p) /\ TemplateFailed(p)) => Owned(CallId(p)) = <<>>

\* The methods that hand LogE's error to the client.
ErrorApis == {"LogE", "LogfE"}

\* C8: an emitted call through LogE or LogfE returns an error that starts
\* with "error parsing template: " when the template source is malformed and
\* one that starts with "error executing template: " when the template names
\* a field the render data does not have; neither returns nil, and a parse
\* error is reported only for the malformed template.
C8_TemplateErrorKinds ==
    \A p \in Procs :
        (pc[p] = "done" /\ level[p] >= logger.Threshold /\ req[p].api \in ErrorApis) =>
            /\ logger.template = UnclosedTemplate =>
                  /\ Len(ret[p]) = 2
                  /\ ret[p][1] = "error parsing template: "
            /\ logger.template \in {UnknownFieldTemplate, PrefixUnknownFieldTemplate} =>
                  /\ Len(ret[p]) = 2
                  /\ ret[p][1] = "error executing template: "
            /\ (ret[p] # NoError /\ ret[p][1] = "error parsing template: ") =>
                  logger.template = UnclosedTemplate

\* C8 witness: LogfE has returned a parse error.
C8_Witness ==
    \E p \in Procs :
        /\ pc[p] = "done"
        /\ req[p].api = "LogfE"
        /\ ret[p] = ParseError("unclosed action")

\* The level a method logs at: its own for the level methods, the argument
\* for the others.
ExpectedLevel(r) ==
    CASE r.api \in {"Debug", "Debugf"} -> LevelDebug
      [] r.api \in {"Info", "Infof"}   -> LevelInfo
      [] r.api \in {"Warn", "Warnf"}   -> LevelWarn
      [] r.api \in {"Error", "Errorf"} -> LevelError
      [] r.api \in {"Fatal", "Fatalf"} -> LevelFatal
      [] OTHER                         -> r.level
\* The message a method logs: the formatted one for the f methods.
ExpectedMessage(r) ==
    IF r.api \in FormatApis \cup LevelfApis THEN <<"h", "i">> ELSE r.format

\* C9: every method is LogE at the method's level with the method's message
\* (formatted, for the f methods): LogE receives exactly that level and that
\* message, and the methods other than LogE and LogfE surface no error, while
\* LogE and LogfE hand back LogE's error.
C9_FireAndForgetDelegates ==
    \A p \in Procs :
        pc[p] # "idle" =>
            /\ level[p] = ExpectedLevel(req[p])
            /\ msg0[p] = ExpectedMessage(req[p])
            /\ discard[p] = (req[p].api \notin ErrorApis)
            /\ pc[p] = "done" =>
                  ret[p] = IF req[p].api \in ErrorApis THEN err[p] ELSE NoResult

\* C9 witness: Warnf has returned nothing although its LogE failed.
C9_Witness ==
    \E p \in Procs :
        /\ pc[p] = "done"
        /\ req[p].api = "Warnf"
        /\ err[p] # NoError
        /\ ret[p] = NoResult

\* A hook of the goroutine's call is running.
InHook(p) == pc[p] \in {"inpre", "inpost"}

\* C10 as stated: no hook of one call runs while a hook of another call runs.
C10_NoTwoHooksAtOnce ==
    \A p, q \in Procs : (p # q /\ InHook(p)) => ~InHook(q)

\* C10 amended: a post-hook runs under the lock that serializes the write, so
\* no post-hook of one call runs while a post-hook or the write of another
\* call runs; pre-hooks run outside the lock.
C10_PostHooksSerialized ==
    \A p \in Procs :
        pc[p] \in {"post", "inpost"} =>
            /\ mu = p
            /\ \A q \in Procs \ {p} : pc[q] \notin {"exec", "post", "inpost", "unlock"}

\* C10 witness: a post-hook of one call runs while another call, past its
\* pre-hooks and its parse, waits for the lock.
C10_Witness ==
    \E p, q \in Procs :
        /\ p # q
        /\ pc[p] = "inpost"
        /\ pc[q] = "lock"

\* C11: the lock is released before the post-hooks of the call run: no
\* post-hook executes while its own call holds the Logger's write lock, and
\* a call holds the lock only while it writes its entry.
C11_PostHooksAfterUnlock ==
    \A p \in Procs :
        /\ pc[p] \in {"post", "inpost"} => mu # p
        /\ mu = p => pc[p] = "exec"

\* C12: the lock is released on every exit path of LogE: a call that has
\* returned (dropped by the threshold, failed at parse time, failed at
\* execution or write time, or written) does not hold the lock, a call holds
\* the lock only between its Lock and its deferred Unlock, and when no call is
\* in progress the lock is free.
C12_LockReleasedOnEveryExit ==
    /\ \A p \in Procs :
          /\ Returned(p) => mu # p
          /\ pc[p] \in {"idle", "pre", "inpre", "data", "parse", "lock"} => mu # p
          /\ pc[p] \in {"exec", "post", "inpost", "unlock"} => mu = p
    /\ Quiescent => mu = 0

\* C12 witness: no call is in progress after one call was dropped by the
\* threshold or failed at parse time and another failed under the lock.
C12_Witness ==
    \E p, q \in Procs :
        /\ p # q
        /\ Quiescent
        /\ pc[p] = "done" /\ FirstAt(p, "lock") = 0
        /\ pc[q] = "done" /\ FirstAt(q, "failed") # 0

C14_WriteErrorsNotReported ==
    \A p \in Procs :
        (Returned(p) /\ err[p] # NoError) =>
            \/ err[p][1] = "error parsing template: "
            \/ err[p] = <<"error executing template: ", "can't evaluate field">>

\* C14 amended: a failing Write of the sink stops the template execution and
\* LogE returns it as an execution error ("error executing template: "
\* followed by the write error); a call that took the lock returns nil only
\* when its whole entry is in the sink, and a call whose write failed runs no
\* post-hook.
C14_WriteErrorsAsExecErrors ==
    \A p \in Procs :
        Returned(p) =>
            /\ (FirstAt(p, "lock") # 0 /\ err[p] = NoError) => WholeEntry(CallId(p))
            /\ (FirstAt(p, "lock") # 0 /\ ~WholeEntry(CallId(p))) =>
                  /\ Len(err[p]) = 2
                  /\ err[p][1] = "error executing template: "
                  /\ Events(p, "post") = <<>>
            /\ (err[p] # NoError /\ err[p][2] = "write failed") =>
                  /\ ~sinkOk
                  /\ err[p][1] = "error executing template: "
                  /\ req[p].api \in ErrorApis => ret[p] \in {NoResult, err[p]}

\* C14 witness: on a valid template LogE has handed the client the error of
\* a failed Write after part of the entry was written.
C14_Witness ==
    \E p \in Procs :
        /\ pc[p] = "done"
        /\ ValidTemplate
        /\ req[p].api = "LogE"
        /\ ret[p] = ExecError("write failed")
        /\ Owned(CallId(p)) # <<>>

\* The first n units of seq (all of them when it has fewer).
Prefix(seq, n) == [i \in 1..(IF Len(seq) < n THEN Len(seq) ELSE n) |-> seq[i]]

\* C15: the rendered Message is the truncation of the pending message to the
\* max size n: for a message longer than n it is the prefix of exactly n
\* units and nothing after it, for a message of at most n units it is the
\* message unchanged; it never exceeds n units and truncating it again
\* changes nothing.
C15_TruncationIsPrefix ==
    \A p \in Procs :
        pc[p] \in {"parse", "lock", "exec"} =>
            LET m == message[p]
                n == logger.maxSize
                out == data[p].Message
            IN
            /\ Len(m) > n => (Len(out) = n /\ \A i \in 1..n : out[i] = m[i])
            /\ Len(m) <= n => out = m
            /\ Len(out) <= n
            /\ out = Prefix(m, n)
            /\ truncateString(out, n) = out
            /\ truncateString(truncateString(m, n), n) = truncateString(m, n)

\* C15 witness: a message of four units has been cut to its first two.
C15_Witness ==
    \E p \in Procs :
        /\ pc[p] = "lock"
        /\ logger.maxSize = 2
        /\ message[p] = <<"h", "i", "!", "a">>
        /\ data[p].Message = <<"h", "i">>

\* The Caller text the claim expects for a provider's answer.
ExpectedCaller(cp) ==
    IF cp.ok THEN <<cp.file, ":", ToString(cp.line)>> ELSE <<"unknown">>
\* The entry the templates of the render-data client produce.
ExpectedEntry(template, lvl, time, msg, caller) ==
    CASE template = CallerTemplate ->
            caller \o <<" [">> \o lvl \o <<"]: ">> \o msg \o <<"\n">>
      [] template = CompleteTemplate ->
            time \o <<" ">> \o caller \o <<" | [">> \o lvl \o <<"]: ">> \o msg
            \o <<"\n">>
      [] template = MessageCallerTemplate ->
            msg \o <<" ">> \o caller \o <<"\n">>
\* The text a call has put into the sink.
OwnedText(c) == [i \in 1..Len(Owned(c)) |-> Owned(c)[i].s]

\* C16: the Caller field is "unknown" when the caller provider reports
\* ok=false, whatever file and line it returned, and "<file>:<line>" when it
\* reports ok=true; the entry written shows that text where the template has
\* the field (first, in the middle or last); and with ok=false a call at a
\* level >= the threshold still returns nil when the sink accepts the writes.
C16_CallerRendering ==
    \A p \in Procs :
        /\ data[p] # NoData => data[p].Caller = ExpectedCaller(logger.callerProvider)
        /\ (Returned(p) /\ level[p] >= logger.Threshold /\ sinkOk) =>
              /\ err[p] = NoError
              /\ OwnedText(CallId(p)) =
                    ExpectedEntry(logger.template, LevelString(level[p]),
                                  data[p].Time, data[p].Message,
                                  ExpectedCaller(logger.callerProvider))

\* C16 witness: a call has returned nil on a Logger whose provider reports
\* ok=false with a file and a line, the Caller field in the middle of the
\* template.
C16_Witness ==
    \E p \in Procs :
        /\ pc[p] = "done"
        /\ err[p] = NoError
        /\ level[p] >= logger.Threshold
        /\ logger.callerProvider = staleCallerProvider
        /\ logger.template = CompleteTemplate

\* The option list with the options at i and i + 1 exchanged.
SwapAdjacent(options, i) ==
    [k \in 1..Len(options) |->
        IF k = i THEN options[i + 1] ELSE IF k = i + 1 THEN options[i] ELSE options[k]]
HookOptions == {"WithPreHook", "WithPostHook"}

C18_ConfigurationUnchanged ==
    /\ logger = New(newArgs.threshold, newArgs.options)
    /\ logger.Threshold = newArgs.threshold

\* C18 witness: after a call that wrote its entry and ran its hooks, a second
\* call was dropped by the threshold.
C18_Witness ==
    \E p \in Procs :
        /\ pc[p] = "done"
        /\ ncalls[p] = 2
        /\ level[p] < logger.Threshold
        /\ sink # <<>>
        /\ Len(logger.preHooks) = 2
        /\ Len(logger.postHooks) = 2

\* The message after the first n hooks of a list have rewritten it.
RECURSIVE HooksApplied(_, _, _)
HooksApplied(hooks, n, msg) ==
    IF n = 0 THEN msg
    ELSE HookBody(hooks[n], HooksApplied(hooks, n - 1, msg))
\* The last n units of seq.
Suffix(seq, n) == SubSeq(seq, Len(seq) - n + 1, Len(seq))

\* C19: the rendered Message is the call's message after all pre-hooks,
\* cut to the max size; the post-hooks receive that pre-hook-rewritten
\* message (each one with the rewrites of the post-hooks before it); and from
\* the end of the write on, through every post-hook and after the return, the
\* call's entry in the sink ends with the rendered Message and the newline:
\* no post-hook rewrite changes it, and a later call's Message derives from
\* that call's own argument.
C19_RenderedMessageIsPreHooked ==
    \A p \in Procs :
        LET pre == HooksApplied(logger.preHooks, Len(logger.preHooks), msg0[p])
            rendered == Prefix(pre, logger.maxSize)
        IN
        /\ data[p] # NoData => data[p].Message = rendered
        /\ pc[p] \in {"post", "inpost"} =>
              message[p] = HooksApplied(logger.postHooks, hk[p] - 1, pre)
        /\ FirstAt(p, "written") # 0 =>
              LET text == OwnedText(CallId(p)) IN
              /\ Len(text) >= Len(rendered) + 1
              /\ Suffix(text, Len(rendered) + 1) = rendered \o <<"\n">>

\* C19 witness: a call has returned after two pre-hooks and two post-hooks
\* rewrote its message, the rendered Message cut to three units.
C19_Witness ==
    \E p \in Procs :
        /\ pc[p] = "done"
        /\ ncalls[p] = 2
        /\ err[p] = NoError
        /\ logger.maxSize = 3
        /\ message[p] = <<"h", "i", "a", "b", "a", "b">>
        /\ data[p].Message = <<"h", "i", "a">>
        /\ Suffix(OwnedText(CallId(p)), 4) = <<"h", "i", "a", "\n">>

\* C20: under every interleaving of concurrent calls, a call's pending
\* message is its own argument rewritten by the hooks that call has run, and
\* nothing else: the rendered Message comes from that call's argument and
\* pre-hooks, and the entry the call writes shows it.
C20_PendingMessagePrivate ==
    \A p \in Procs :
        pc[p] # "idle" =>
            LET pre == HooksApplied(logger.preHooks, Len(Events(p, "pre")), msg0[p])
            IN
            /\ msg0[p] = Dispatch(req[p]).message
            /\ message[p]
                  = HooksApplied(logger.postHooks, Len(Events(p, "post")), pre)
            /\ data[p] # NoData => data[p].Message = Prefix(pre, logger.maxSize)
            /\ (FirstAt(p, "written") # 0 /\ logger.template = ShortTemplate) =>
                  OwnedText(CallId(p))
                    = LevelString(level[p]) \o <<": ">> \o Prefix(pre, logger.maxSize)
                      \o <<"\n">>

\* C20 witness: a call is in its post-hook, its message rewritten by its own
\* pre-hook, while another call with a different message, rewritten by its
\* own pre-hook, waits for the lock.
C20_Witness ==
    \E p, q \in Procs :
        /\ p # q
        /\ msg0[p] = <<"h", "i">>
        /\ msg0[q] = <<"y", "i">>
        /\ pc[p] = "inpost"
        /\ message[p] = <<"h", "i", "a">>
        /\ pc[q] = "lock"
        /\ message[q] = <<"y", "i", "a">>

\* C21: with concurrent callers, hooks that return and a sink whose Write
\* returns, every call that has started returns, whatever the other calls
\* do (dropped, failing under the lock, successful): again and again no call
\* is in progress, which a call that never returned would rule out from its
\* start on.
C21_EveryCallReturns == []<>Quiescent

\* C21 witness: no call is in progress after one call failed under the lock
\* and another took the lock after it and returned.
C21_Witness ==
    \E p, q \in Procs :
        /\ p # q
        /\ Quiescent
        /\ pc[p] = "done" /\ FirstAt(p, "failed") # 0
        /\ pc[q] = "done" /\ FirstAt(q, "lock") # 0
        /\ \E i \in 1..Len(sink) : sink[i].by = CallId(p) /\
              \E j \in (i + 1)..Len(sink) : sink[j].by = CallId(q)

\* C22: a post-hook may log through the Logger it receives: the call it
\* makes at a level >= the threshold does not block on the Logger's write
\* lock, that is, it never waits in l.mu.Lock() for a lock its own goroutine
\* holds (which nothing would release).
C22_PostHookMayLog ==
    \A p \in Procs :
        (stack[p] # <<>> /\ pc[p] = "lock") => mu # p

\* C23 as stated: the entries appear in the sink in the order in which their
\* calls sampled the time: of two calls with units in the sink, the one
\* whose units come first sampled the earlier (or the same) time.
C23_SinkInTimeOrder ==
    \A p, q \in Procs :
        \A i, j \in 1..Len(sink) :
            (i < j /\ sink[i].by = CallId(p) /\ sink[j].by = CallId(q)) =>
                stamp[p].sampled <= stamp[q].sampled

\* C23 amended: a call samples the time before it takes the lock, and the
\* entries appear in the sink in the order in which the calls took the lock:
\* a call that sampled the time after another call took the lock has all
\* its units after that call's units and a later (or the same) Time; two
\* calls that sampled before either took the lock may be written in either
\* order.
C23_SinkInLockOrder ==
    \A p, q \in Procs :
        (/\ p # q
         /\ stamp[p].locked # NoStamp.locked
         /\ stamp[q].sampled # NoStamp.sampled
         /\ stamp[q].sampled >= stamp[p].locked) =>
            /\ stamp[p].sampled < stamp[p].locked
            /\ stamp[p].sampled <= stamp[q].sampled
            /\ \A i, j \in 1..Len(sink) :
                  (sink[i].by = CallId(p) /\ sink[j].by = CallId(q)) => i < j

\* C23 witness: two calls have written their entries, the second having
\* sampled the time after the first took the lock.
C23_Witness ==
    \E p, q \in Procs :
        /\ p # q
        /\ pc[p] = "done" /\ pc[q] = "done"
        /\ WholeEntry(CallId(p)) /\ WholeEntry(CallId(q))
        /\ stamp[q].sampled >= stamp[p].locked

\* C24: LogE never aborts with a panic of the library's own code: at every
\* level, above LevelFatal too, and with every max size, zero and negative
\* too, a call at a level >= the threshold writes its entry or returns an
\* error; rendering the level and truncating the message never fail.
C24_NoPanic ==
    \A p \in Procs :
        /\ pc[p] # "panic"
        /\ (pc[p] = "done" /\ level[p] >= logger.Threshold) =>
              (err[p] # NoError \/ WholeEntry(CallId(p)))

====
